---- MODULE Spec2Model ----
(***************************************************************************)
(* Model of the PassKit ID batch lookup page (src/app.py).                 *)
(*                                                                         *)
(* Python strings are modelled as sequences of one-character strings, so   *)
(* that stripping, case conversion, whitespace collapsing, line splitting  *)
(* and the substring test are computed character by character.             *)
(* JSON values are tagged records [t |-> tag, v |-> payload].              *)
(***************************************************************************)
EXTENDS Integers, Sequences, FiniteSets, TLC

VARIABLES
    names_text,     \* st.session_state.names_text: the text area's content
    operator,       \* the sidebar's match mode: "eq" or "like"
    copied_ids,     \* st.session_state.copied_ids
    phase,          \* what the last script run rendered
    names,          \* split_names_multiline(names_text, 50) of the last search
    raw_members,    \* the record list list_members_by_display_names returned
    rows,           \* the result rows of the last search
    not_found,      \* the not-found list of the last search
    error,          \* the exception st.error reported, or NoError
    http_requests,  \* requests.post calls made by the last search
    last_op,        \* the handler that ran last
    session_keys,   \* the keys st.session_state holds
    response,       \* what the API answered to the last search
    arg,            \* argument of the function under test
    ret             \* its result, or NotCalled

vars == <<names_text, operator, copied_ids, phase, names, raw_members, rows,
          not_found, error, http_requests, last_op, session_keys, response,
          arg, ret>>

pageVars == <<names_text, operator, copied_ids, phase, names, raw_members,
              rows, not_found, error, http_requests, last_op, session_keys,
              response>>

-----------------------------------------------------------------------------
(* Bounds of the model. *)

MaxTextLen == 4

MaxLimit == 2

MaxNamesTextLen == 4

MaxRecords == 2

-----------------------------------------------------------------------------
(* Generic helpers for Python's sequence operations. *)

Min(a, b) == IF a <= b THEN a ELSE b

Range(s) == {s[i] : i \in 1..Len(s)}

\* s[:n] for n >= 0
Take(s, n) == SubSeq(s, 1, Min(n, Len(s)))

\* s[n:] for n >= 0
Drop(s, n) == SubSeq(s, n + 1, Len(s))

\* [f(x) for x in s] is written [i \in 1..Len(s) |-> f(s[i])] in place.

\* All sequences over alphabet of length at most n.
SeqsUpTo(alphabet, n) == UNION {[1..k -> alphabet] : k \in 0..n}

\* Python's None where a string is expected.
None == <<"None">>

\* (s or "")
OrEmpty(s) == IF s = None THEN <<>> ELSE s

-----------------------------------------------------------------------------
(* normalize_name and split_names_multiline *)

\* The characters str.isspace() holds of, which are also those \s matches.
Whitespace == {" ", "\t", "\n", "\r"}

\* The characters str.splitlines() breaks lines at.
LineBreaks == {"\n", "\r"}

UpperChar(c) == IF c = "a" THEN "A" ELSE IF c = "b" THEN "B" ELSE c

\* str.upper()
Upper(s) == [i \in 1..Len(s) |-> UpperChar(s[i])]

RECURSIVE LStrip(_)
LStrip(s) ==
    IF s # <<>> /\ Head(s) \in Whitespace THEN LStrip(Tail(s)) ELSE s

RECURSIVE RStrip(_)
RStrip(s) ==
    IF s # <<>> /\ s[Len(s)] \in Whitespace
    THEN RStrip(SubSeq(s, 1, Len(s) - 1))
    ELSE s

\* str.strip()
Strip(s) == RStrip(LStrip(s))

\* re.sub(r"\s+", " ", s): every maximal run of whitespace becomes one space.
RECURSIVE CollapseWhitespace(_)
CollapseWhitespace(s) ==
    IF s = <<>> THEN <<>>
    ELSE IF Head(s) \in Whitespace
         THEN <<" ">> \o CollapseWhitespace(LStrip(s))
         ELSE <<Head(s)>> \o CollapseWhitespace(Tail(s))

RECURSIVE StripSpaces(_)
StripSpaces(s) ==
    IF s # <<>> /\ Head(s) = " " THEN StripSpaces(Tail(s))
    ELSE IF s # <<>> /\ s[Len(s)] = " "
         THEN StripSpaces(SubSeq(s, 1, Len(s) - 1))
         ELSE s

\* Faulty variant: strip(" ") in place of strip().
normalize_name_stripping_spaces(s) ==
    CollapseWhitespace(Upper(StripSpaces(OrEmpty(s))))

normalize_name(s) == CollapseWhitespace(Upper(Strip(OrEmpty(s))))

\* str.splitlines(): "\r\n" is one break, and a final break opens no line.
RECURSIVE SplitLinesFrom(_, _)
SplitLinesFrom(s, cur) ==
    IF s = <<>> THEN (IF cur = <<>> THEN <<>> ELSE <<cur>>)
    ELSE IF Head(s) = "\r" /\ Len(s) >= 2 /\ s[2] = "\n"
         THEN <<cur>> \o SplitLinesFrom(Drop(s, 2), <<>>)
    ELSE IF Head(s) \in LineBreaks
         THEN <<cur>> \o SplitLinesFrom(Tail(s), <<>>)
    ELSE SplitLinesFrom(Tail(s), Append(cur, Head(s)))

splitlines(s) == SplitLinesFrom(s, <<>>)

NonEmpty(x) == x # <<>>

\* limit: int = 50
DefaultLimit == 50

\* Faulty variant: lines[:limit + 1].
split_names_one_too_many(text, limit) ==
    LET raw == splitlines(OrEmpty(text))
        lines == [i \in 1..Len(raw) |-> normalize_name(raw[i])]
    IN  Take(SelectSeq(lines, NonEmpty), limit + 1)

split_names_multiline(text, limit) ==
    LET raw == splitlines(OrEmpty(text))
        lines == [i \in 1..Len(raw) |-> normalize_name(raw[i])]
    IN  Take(SelectSeq(lines, NonEmpty), limit)

-----------------------------------------------------------------------------
(* JSON values as Python holds them after resp.json(). An object is a      *)
(* record over the keys the code reads; a key the object lacks holds       *)
(* Absent, which is also what dict.get returns for it (None).              *)

Absent == [t |-> "absent", v |-> 0]

JNull == [t |-> "null", v |-> 0]

JBool(b) == [t |-> "bool", v |-> b]

JNum(n) == [t |-> "num", v |-> n]

JStr(s) == [t |-> "str", v |-> s]

JList(items) == [t |-> "list", v |-> items]

JDict(fields) == [t |-> "dict", v |-> fields]

\* key in d, for a dict d
HasKey(d, key) == d.v[key].t # "absent"

\* not x
Falsy(x) ==
    CASE x.t = "absent" -> TRUE
      [] x.t = "null" -> TRUE
      [] x.t = "bool" -> ~x.v
      [] x.t = "num" -> x.v = 0
      [] x.t = "str" -> x.v = <<>>
      [] x.t = "list" -> x.v = <<>>
      [] x.t = "dict" -> \A k \in DOMAIN x.v : x.v[k].t = "absent"

\* xs[1] or xs[2] or ... or default
RECURSIVE OrChain(_, _)
OrChain(xs, default) ==
    IF xs = <<>> THEN default
    ELSE IF Falsy(Head(xs)) THEN OrChain(Tail(xs), default)
    ELSE Head(xs)

Digit(d) == <<"0", "1", "2", "3", "4", "5", "6", "7", "8", "9">>[d + 1]

RECURSIVE NatStr(_)
NatStr(n) == IF n < 10 THEN <<Digit(n)>> ELSE NatStr(n \div 10) \o <<Digit(n % 10)>>

\* str(x), for the values a member id takes in this model
Str(x) ==
    CASE x.t = "str" -> x.v
      [] x.t = "num" -> NatStr(x.v)
      [] x.t = "bool" -> IF x.v THEN <<"T", "r", "u", "e">>
                         ELSE <<"F", "a", "l", "s", "e">>
      [] x.t = "null" -> <<"N", "o", "n", "e">>

\* a in b, for strings
IsSubstring(a, b) ==
    \E i \in 0..(Len(b) - Len(a)) : SubSeq(b, i + 1, i + Len(a)) = a

-----------------------------------------------------------------------------
(* list_members_by_display_names *)

ExcerptLen == 500

Raise(kind, status, excerpt) ==
    [raised |-> TRUE,
     error |-> [kind |-> kind, status |-> status, excerpt |-> excerpt],
     value |-> <<>>]

NoError == [kind |-> "none", status |-> 0, excerpt |-> <<>>]

Returns(list) == [raised |-> FALSE, error |-> NoError, value |-> list]

TopLevelKeys == <<"members", "results", "data", "items">>

NestedKeys == <<"members", "results", "items">>

KeyChars(key) ==
    CASE key = "members" -> <<"m", "e", "m", "b", "e", "r", "s">>
      [] key = "results" -> <<"r", "e", "s", "u", "l", "t", "s">>
      [] key = "data" -> <<"d", "a", "t", "a">>
      [] key = "items" -> <<"i", "t", "e", "m", "s">>
      [] key = "response" -> <<"r", "e", "s", "p", "o", "n", "s", "e">>

\* for key in keys: if key in d and isinstance(d[key], list): return d[key]
\* over a dict d; NoList when the loop ends without returning.
NoList == [found |-> FALSE, v |-> <<>>]

RECURSIVE FirstListUnder(_, _)
FirstListUnder(d, keys) ==
    IF keys = <<>> THEN NoList
    ELSE IF HasKey(d, Head(keys)) /\ d.v[Head(keys)].t = "list"
         THEN [found |-> TRUE, v |-> d.v[Head(keys)].v]
         ELSE FirstListUnder(d, Tail(keys))

\* Lines 163-177 on the parsed body.
ParseEnvelope(data) ==
    CASE data.t = "list" -> Returns(data.v)
      [] data.t = "dict" ->
            LET top == FirstListUnder(data, TopLevelKeys)
            IN  IF top.found THEN Returns(top.v)
                ELSE IF HasKey(data, "response") /\ data.v["response"].t = "dict"
                     THEN Returns(FirstListUnder(data.v["response"], NestedKeys).v)
                     ELSE Returns(<<>>)
      [] data.t = "str" ->
            \* "key in data" is a substring test, and data[key] a TypeError
            IF \E i \in 1..Len(TopLevelKeys) :
                    IsSubstring(KeyChars(TopLevelKeys[i]), data.v)
            THEN Raise("TypeError", 0, <<>>)
            ELSE IF IsSubstring(KeyChars("response"), data.v)
                 THEN Raise("TypeError", 0, <<>>)
                 ELSE Returns(<<>>)
      [] data.t \in {"null", "num", "bool"} ->
            \* "key in data" is a TypeError
            Raise("TypeError", 0, <<>>)

\* Faulty variant: a failed request is posted a second time before giving up.
list_members_retrying(display_names, env) ==
    IF display_names = <<>> THEN Returns(<<>>) @@ [posts |-> 0]
    ELSE IF ~env.creds THEN Raise("RuntimeError", 0, <<>>) @@ [posts |-> 0]
    ELSE IF ~env.net THEN Raise("RequestException", 0, <<>>) @@ [posts |-> 2]
    ELSE IF env.status >= 400
         THEN Raise("HTTP", env.status, Take(env.text, ExcerptLen)) @@ [posts |-> 2]
    ELSE IF env.json.t = "invalid"
         THEN Raise("JSONDecodeError", 0, <<>>) @@ [posts |-> 1]
    ELSE ParseEnvelope(env.json) @@ [posts |-> 1]

\* The call, given what the environment answers: env.creds says whether
\* PK_API_KEY and PK_API_SECRET are set, env.net whether requests.post returns
\* a response, env.status, env.text and env.json are that response
\* (env.json.t = "invalid" when resp.json() raises).
\* The result also counts the requests.post calls made.
list_members_by_display_names(display_names, env) ==
    IF display_names = <<>> THEN Returns(<<>>) @@ [posts |-> 0]
    ELSE IF ~env.creds THEN Raise("RuntimeError", 0, <<>>) @@ [posts |-> 0]
    ELSE IF ~env.net THEN Raise("RequestException", 0, <<>>) @@ [posts |-> 1]
    ELSE IF env.status >= 400
         THEN Raise("HTTP", env.status, Take(env.text, ExcerptLen)) @@ [posts |-> 1]
    ELSE IF env.json.t = "invalid"
         THEN Raise("JSONDecodeError", 0, <<>>) @@ [posts |-> 1]
    ELSE ParseEnvelope(env.json) @@ [posts |-> 1]

-----------------------------------------------------------------------------
(* extract_display_name_and_id and the matching loop of main *)

EmptyPerson ==
    JDict([displayName |-> Absent, display_name |-> Absent, name |-> Absent])

extract_display_name_and_id(member_obj) ==
    LET m == member_obj.v
        person == OrChain(<<m.person, m.Person>>, EmptyPerson)
        display_name ==
            IF person.t = "dict"
            THEN OrChain(<<person.v.displayName, person.v.display_name,
                           person.v.name>>, JStr(<<>>))
            ELSE JStr(<<>>)
        member_id == OrChain(<<m.id, m.memberId, m.member_id>>, JStr(<<>>))
    IN  [name |-> normalize_name(display_name.v), id |-> Str(member_id)]

\* Faulty variant: the loop without its break keeps the last match.
RECURSIVE LastLikeMatch(_, _)
LastLikeMatch(snames, member_name) ==
    IF snames = <<>> THEN <<>>
    ELSE LET sname == snames[Len(snames)]
         IN  IF IsSubstring(sname, member_name) \/ IsSubstring(member_name, sname)
             THEN sname
             ELSE LastLikeMatch(SubSeq(snames, 1, Len(snames) - 1), member_name)

\* for sname in names: if sname in member_name or member_name in sname: ...
RECURSIVE FirstLikeMatch(_, _)
FirstLikeMatch(snames, member_name) ==
    IF snames = <<>> THEN <<>>
    ELSE IF IsSubstring(Head(snames), member_name)
            \/ IsSubstring(member_name, Head(snames))
         THEN Head(snames)
         ELSE FirstLikeMatch(Tail(snames), member_name)

\* Faulty variant: the substring match in both modes.
MatchedSearchIgnoringMode(snames, op, member_name) ==
    LET hits == SelectSeq(snames, LAMBDA n : IsSubstring(n, member_name)
                                             \/ IsSubstring(member_name, n))
    IN  IF hits = <<>> THEN <<>> ELSE Head(hits)

\* matched_search of lines 475-483
MatchedSearch(snames, op, member_name) ==
    IF op = "eq"
    THEN IF member_name \in Range(snames) THEN member_name ELSE <<>>
    ELSE FirstLikeMatch(snames, member_name)

\* Faulty variant: the loop without "if not member_id: continue".
RECURSIVE BuildRowsKeepingEmptyIds(_, _, _)
BuildRowsKeepingEmptyIds(snames, op, members) ==
    IF members = <<>> THEN <<>>
    ELSE LET e == extract_display_name_and_id(Head(members))
             matched_search ==
                 IF op = "eq"
                 THEN IF e.name \in Range(snames) THEN e.name ELSE <<>>
                 ELSE LET hits == SelectSeq(snames, LAMBDA n :
                                      IsSubstring(n, e.name) \/ IsSubstring(e.name, n))
                      IN  IF hits = <<>> THEN <<>> ELSE Head(hits)
             rest == BuildRowsKeepingEmptyIds(snames, op, Tail(members))
         IN  IF matched_search = <<>> THEN rest
             ELSE <<[search_name |-> matched_search,
                     member_name |-> e.name,
                     passkit_id |-> e.id]>> \o rest

\* The loop of lines 464-495.
RECURSIVE BuildRows(_, _, _)
BuildRows(snames, op, members) ==
    IF members = <<>> THEN <<>>
    ELSE LET e == extract_display_name_and_id(Head(members))
             matched_search == MatchedSearch(snames, op, e.name)
             rest == BuildRows(snames, op, Tail(members))
         IN  IF e.id = <<>> THEN rest
             ELSE IF matched_search = <<>> THEN rest
             ELSE <<[search_name |-> matched_search,
                     member_name |-> e.name,
                     passkit_id |-> e.id]>> \o rest

\* Faulty variant: found_inputs built from the member names of the rows.
NotFoundByMemberName(snames, found_rows) ==
    LET found_inputs == {found_rows[i].member_name : i \in 1..Len(found_rows)}
    IN  SelectSeq(snames, LAMBDA n : n \notin found_inputs)

\* Lines 500-501.
NotFound(snames, found_rows) ==
    LET found_inputs == {found_rows[i].search_name : i \in 1..Len(found_rows)}
    IN  SelectSeq(snames, LAMBDA n : n \notin found_inputs)

-----------------------------------------------------------------------------
(* The page: every widget event reruns main from the top. *)

SessionKeys == {"copied_ids", "names_text"}

\* Faulty variant: init_state without its "not in st.session_state" guard.
init_state_unguarded(keys, ids) == {}

\* init_state: a key is set only when the session lacks it.
init_state(keys, ids) == IF "copied_ids" \in keys THEN ids ELSE {}

NoResponse ==
    [creds |-> TRUE, net |-> TRUE, status |-> 0, text |-> <<>>, json |-> Absent]

\* A run that does not reach the search block renders no result.
NoResult ==
    /\ names' = <<>>
    /\ raw_members' = <<>>
    /\ rows' = <<>>
    /\ not_found' = <<>>
    /\ error' = NoError
    /\ http_requests' = 0
    /\ response' = NoResponse

\* The state before the first script run of a session.
Init ==
    /\ names_text = <<>>
    /\ operator = "eq"
    /\ copied_ids = {}
    /\ session_keys = {}
    /\ phase = "unloaded"
    /\ names = <<>>
    /\ raw_members = <<>>
    /\ rows = <<>>
    /\ not_found = <<>>
    /\ error = NoError
    /\ http_requests = 0
    /\ response = NoResponse
    /\ last_op = "init"
    /\ arg = [fn |-> "none"]
    /\ ret = [fn |-> "none"]

\* The first run: no widget has been touched.
Load ==
    /\ session_keys = {}
    /\ session_keys' = SessionKeys
    /\ copied_ids' = init_state(session_keys, copied_ids)
    /\ phase' = "idle"
    /\ last_op' = "load"
    /\ NoResult
    /\ UNCHANGED <<names_text, operator, arg, ret>>

\* The operator edits the text area (line 426-432).
EditTextIn(texts) ==
    /\ session_keys = SessionKeys
    /\ \E t \in texts :
        /\ t # names_text
        /\ names_text' = t
    /\ copied_ids' = init_state(session_keys, copied_ids)
    /\ phase' = "idle"
    /\ last_op' = "edit"
    /\ NoResult
    /\ UNCHANGED <<operator, session_keys, arg, ret>>

\* The operator picks the match mode in the sidebar (line 390).
SelectOperator ==
    /\ session_keys = SessionKeys
    /\ \E o \in {"eq", "like"} :
        /\ o # operator
        /\ operator' = o
    /\ copied_ids' = init_state(session_keys, copied_ids)
    /\ phase' = "idle"
    /\ last_op' = "select"
    /\ NoResult
    /\ UNCHANGED <<names_text, session_keys, arg, ret>>

\* The operator clicks Search (lines 441-507), and the API answers env.
SearchIn(envs) ==
    /\ session_keys = SessionKeys
    /\ \E env \in envs :
        LET snames == split_names_multiline(names_text, DefaultLimit)
            res == list_members_by_display_names(snames, env)
            found == BuildRows(snames, operator, res.value)
        IN  /\ names' = snames
            /\ IF snames = <<>>
               THEN /\ phase' = "warned"
                    /\ response' = NoResponse
                    /\ http_requests' = 0
                    /\ error' = NoError
                    /\ raw_members' = <<>>
                    /\ rows' = <<>>
                    /\ not_found' = <<>>
               ELSE IF res.raised
               THEN /\ phase' = "failed"
                    /\ response' = env
                    /\ http_requests' = res.posts
                    /\ error' = res.error
                    /\ raw_members' = <<>>
                    /\ rows' = <<>>
                    /\ not_found' = <<>>
               ELSE /\ phase' = "shown"
                    /\ response' = env
                    /\ http_requests' = res.posts
                    /\ error' = NoError
                    /\ raw_members' = res.value
                    /\ rows' = found
                    /\ not_found' = NotFound(snames, found)
    /\ copied_ids' = init_state(session_keys, copied_ids)
    /\ last_op' = "search"
    /\ UNCHANGED <<names_text, operator, session_keys, arg, ret>>

\* The operator clicks a row's mark button (lines 321-335).
MarkCopied ==
    /\ phase = "shown"
    /\ \E i \in 1..Len(rows) :
        LET pid == rows[i].passkit_id
        IN  /\ pid # <<>>
            /\ pid \notin copied_ids
            /\ copied_ids' = init_state(session_keys, copied_ids) \cup {pid}
    /\ phase' = "idle"
    /\ last_op' = "mark"
    /\ NoResult
    /\ UNCHANGED <<names_text, operator, session_keys, arg, ret>>

\* The operator clicks the clear button under the table (lines 292-294).
ClearCopied ==
    /\ phase = "shown"
    /\ rows # <<>>
    /\ copied_ids' = {}
    /\ phase' = "idle"
    /\ last_op' = "clear"
    /\ NoResult
    /\ UNCHANGED <<names_text, operator, session_keys, arg, ret>>

-----------------------------------------------------------------------------
(* What the API may answer. *)

Person(displayName, display_name, name) ==
    JDict([displayName |-> displayName, display_name |-> display_name,
           name |-> name])

Member(person, Person_, id, memberId, member_id) ==
    JDict([person |-> person, Person |-> Person_, id |-> id,
           memberId |-> memberId, member_id |-> member_id])

Named(chars) == Person(JStr(chars), Absent, Absent)

\* Member objects: the key variants the code reads, usable and empty ids.
Records ==
    { Member(Named(<<"a">>), Absent, JStr(<<"m", "1">>), Absent, Absent),
      Member(Named(<<"a", "B">>), Absent, JStr(<<"m", "2">>), Absent, Absent),
      Member(Named(<<"B">>), Absent, JStr(<<>>), Absent, Absent),
      Member(Absent, Person(Absent, JStr(<<" ", "b">>), Absent),
             Absent, JStr(<<"m", "3">>), Absent),
      Member(Absent, Absent, JNum(7), Absent, Absent),
      Member(Person(Absent, Absent, JStr(<<"B", "a">>)), Absent,
             JNull, Absent, JStr(<<"m", "4">>)),
      Member(Named(<<"B">>), Absent, JNum(0), Absent, Absent) }

RecordLists == SeqsUpTo(Records, MaxRecords)

Envelope(members, results, data, items, resp) ==
    JDict([members |-> members, results |-> results, data |-> data,
           items |-> items, response |-> resp])

Inner(members, results, data, items) ==
    JDict([members |-> members, results |-> results, data |-> data,
           items |-> items])

Invalid == [t |-> "invalid", v |-> 0]

Answer(status, text, json) ==
    [creds |-> TRUE, net |-> TRUE, status |-> status, text |-> text,
     json |-> json]

NoCredentials ==
    [creds |-> FALSE, net |-> TRUE, status |-> 0, text |-> <<>>, json |-> Invalid]

NoConnection ==
    [creds |-> TRUE, net |-> FALSE, status |-> 0, text |-> <<>>, json |-> Invalid]

LongText(n) == [i \in 1..n |-> IF i % 2 = 1 THEN "x" ELSE "y"]

ErrorTexts ==
    {<<>>, <<"n", "o">>, LongText(ExcerptLen), LongText(ExcerptLen + 1)}

ErrorAnswers ==
    {Answer(st, tx, Invalid) : st \in {400, 401, 404, 500}, tx \in ErrorTexts}
    \cup {Answer(400, <<"n", "o">>, JList(<<r>>)) : r \in Records}

SomeList ==
    <<Member(Named(<<"a">>), Absent, JStr(<<"m", "1">>), Absent, Absent),
      Member(Named(<<"a", "B">>), Absent, JStr(<<"m", "2">>), Absent, Absent)>>

OddAnswers ==
    { Answer(399, <<>>, JList(SomeList)),
      Answer(200, <<>>, Envelope(Absent, JList(SomeList), Absent, Absent, Absent)),
      Answer(200, <<>>, Envelope(Absent, Absent, Absent, Absent,
                                 Inner(Absent, Absent, Absent, JList(SomeList)))),
      Answer(200, <<>>, Envelope(Absent, Absent, Absent, Absent, Absent)),
      Answer(200, <<>>, JNull),
      Answer(200, <<"<", "h", ">">>, Invalid) }

Envs ==
    {Answer(200, <<>>, JList(l)) : l \in RecordLists}
    \cup OddAnswers \cup ErrorAnswers \cup {NoCredentials, NoConnection}

\* Text area contents of a batch: two letters and the line break.
NameChars == {"a", "B", "\n"}

NamesTexts == SeqsUpTo(NameChars, MaxNamesTextLen)

-----------------------------------------------------------------------------
(* One search of one batch, over every text, mode and answer in bounds. *)

InitBatch ==
    /\ names_text \in NamesTexts
    /\ operator \in {"eq", "like"}
    /\ copied_ids = {}
    /\ session_keys = SessionKeys
    /\ phase = "idle"
    /\ names = <<>>
    /\ raw_members = <<>>
    /\ rows = <<>>
    /\ not_found = <<>>
    /\ error = NoError
    /\ http_requests = 0
    /\ response = NoResponse
    /\ last_op = "edit"
    /\ arg = [fn |-> "none"]
    /\ ret = [fn |-> "none"]

SearchOnce ==
    /\ last_op = "edit"
    /\ SearchIn(Envs)

NextBatch == SearchOnce

SpecBatch == InitBatch /\ [][NextBatch]_vars

-----------------------------------------------------------------------------
(* A session: edits, mode changes, searches, marks and clears in any order. *)

SessionTexts ==
    {<<>>, <<"a", "\n", "B">>, <<"B", "B">>}

SessionEnvs ==
    { Answer(200, <<>>, JList(SomeList)),
      Answer(200, <<>>, JList(<<>>)),
      Answer(200, <<>>, JList(<<Member(Absent, Absent, JNum(7), Absent, Absent)>>)),
      Answer(500, <<"n", "o">>, Invalid),
      NoConnection }

EditText == EditTextIn(SessionTexts)

Search == SearchIn(SessionEnvs)

Next ==
    \/ Load
    \/ EditText
    \/ SelectOperator
    \/ Search
    \/ MarkCopied
    \/ ClearCopied

Spec == Init /\ [][Next]_vars

-----------------------------------------------------------------------------
(* The functions under test, called on bounded inputs. *)

\* Characters of the raw texts: a lower-case and an upper-case letter, the
\* space, a tab, and the two line breaks.
TextChars == {"a", "B", " ", "\t", "\n", "\r"}

Texts == SeqsUpTo(TextChars, MaxTextLen) \cup {None}

Limits == (0..MaxLimit) \cup {DefaultLimit}

\* A one-element list that tells where in the body it was put.
ListAt(path) == JList(<<JStr(path)>>)

TopValues(key) == {Absent, JNull, ListAt(KeyChars(key))}

InnerValues(key) ==
    {Absent, JNum(1), ListAt(KeyChars("response") \o <<".">> \o KeyChars(key))}

InnerDicts ==
    {Inner(m, r, d, i) : m \in InnerValues("members"), r \in InnerValues("results"),
                         d \in InnerValues("data"), i \in InnerValues("items")}

ResponseValues == {Absent, JNull, ListAt(KeyChars("response"))} \cup InnerDicts

Envelopes ==
    {Envelope(m, r, d, i, resp) :
        m \in TopValues("members"), r \in TopValues("results"),
        d \in TopValues("data"), i \in TopValues("items"),
        resp \in ResponseValues}

Bodies ==
    Envelopes
    \cup { JNull, JNum(0), JNum(5), JBool(TRUE), JBool(FALSE),
           JStr(<<>>), JStr(<<"o", "k">>), JStr(KeyChars("members")),
           JStr(<<"n", "o">> \o KeyChars("data")), JStr(KeyChars("response")),
           JList(<<>>), JList(SomeList),
           Envelope(JList(<<>>), JList(SomeList), Absent, Absent, Absent) }

CallEnvs ==
    {Answer(200, <<>>, b) : b \in Bodies}
    \cup OddAnswers \cup ErrorAnswers \cup {NoCredentials, NoConnection}

NoArg == [fn |-> "none"]

NotCalled == [fn |-> "none"]

InitFn ==
    /\ Init
    /\ arg = NoArg
    /\ ret = NotCalled

CallNormalize ==
    /\ arg = NoArg
    /\ \E t \in Texts :
        /\ arg' = [fn |-> "normalize_name", text |-> t]
        /\ ret' = [fn |-> "normalize_name",
                   once |-> normalize_name(t),
                   twice |-> normalize_name(normalize_name(t))]
    /\ UNCHANGED pageVars

CallSplit ==
    /\ arg = NoArg
    /\ \E t \in Texts, l \in Limits :
        /\ arg' = [fn |-> "split_names_multiline", text |-> t, limit |-> l]
        /\ ret' = [fn |-> "split_names_multiline",
                   lines |-> split_names_multiline(t, l)]
    /\ UNCHANGED pageVars

CallListMembers ==
    /\ arg = NoArg
    /\ \E dn \in {<<>>, <<<<"A">>, <<"B">>>>}, env \in CallEnvs :
        /\ arg' = [fn |-> "list_members_by_display_names",
                   display_names |-> dn, env |-> env]
        /\ ret' = [fn |-> "list_members_by_display_names"]
                  @@ list_members_by_display_names(dn, env)
    /\ UNCHANGED pageVars

Return ==
    /\ arg # NoArg
    /\ arg' = NoArg
    /\ ret' = NotCalled
    /\ UNCHANGED pageVars

NextFn == CallNormalize \/ CallSplit \/ CallListMembers \/ Return

SpecFn == InitFn /\ [][NextFn]_vars

-----------------------------------------------------------------------------
(* Properties of one search (SpecBatch). *)

RowSearchNames == {rows[i].search_name : i \in 1..Len(rows)}

\* C1: after a rendered search, the search names of the result rows and
\* the not-found list are disjoint and together are exactly the input names.
FoundAndNotFoundPartitionNames ==
    phase = "shown" =>
        /\ RowSearchNames \cap Range(not_found) = {}
        /\ RowSearchNames \cup Range(not_found) = Range(names)

FoundAndNotFoundBothNonEmpty ==
    /\ phase = "shown"
    /\ operator = "like"
    /\ rows # <<>>
    /\ not_found # <<>>
    /\ \E i \in 1..Len(rows) : rows[i].member_name # rows[i].search_name

LikeMatch(sname, member_name) ==
    IsSubstring(sname, member_name) \/ IsSubstring(member_name, sname)

HasUsableId(m) == extract_display_name_and_id(m).id # <<>>

LikeAttributable(m) ==
    /\ HasUsableId(m)
    /\ \E j \in 1..Len(names) :
          LikeMatch(names[j], extract_display_name_and_id(m).name)

\* C2: in like mode the rows are, in order, the records with a non-empty id
\* that some input name matches in either substring direction, each under
\* the first input name of the batch that matches it and under no other.
LikeAttributesToFirstMatch ==
    (phase = "shown" /\ operator = "like") =>
        LET hits == SelectSeq(raw_members, LikeAttributable)
        IN  /\ Len(rows) = Len(hits)
            /\ \A i \in 1..Len(hits) :
                  LET e == extract_display_name_and_id(hits[i])
                  IN  /\ rows[i].member_name = e.name
                      /\ rows[i].passkit_id = e.id
                      /\ \E j \in 1..Len(names) :
                            /\ rows[i].search_name = names[j]
                            /\ LikeMatch(names[j], e.name)
                            /\ \A k \in 1..(j - 1) : ~LikeMatch(names[k], e.name)

LikeTieBrokenByBatchOrder ==
    /\ phase = "shown"
    /\ operator = "like"
    /\ Len(names) = 2
    /\ names[1] # names[2]
    /\ \E i \in 1..Len(rows) :
          /\ rows[i].search_name = names[1]
          /\ rows[i].member_name = names[2]

EqAttributable(m) ==
    /\ HasUsableId(m)
    /\ extract_display_name_and_id(m).name \in Range(names)

\* C3: in eq mode the rows are, in order, the records with a non-empty id
\* whose normalized name equals an input name, one row per record, and the
\* row's search name is that name.
EqMatchesExactlyEqualNames ==
    (phase = "shown" /\ operator = "eq") =>
        LET hits == SelectSeq(raw_members, EqAttributable)
        IN  /\ Len(rows) = Len(hits)
            /\ \A i \in 1..Len(hits) :
                  LET e == extract_display_name_and_id(hits[i])
                  IN  rows[i] = [search_name |-> e.name,
                                 member_name |-> e.name,
                                 passkit_id |-> e.id]

EqOneFoundOneNotFound ==
    /\ phase = "shown"
    /\ operator = "eq"
    /\ Len(raw_members) = 2
    /\ \A k \in 1..2 : HasUsableId(raw_members[k])
    /\ Len(rows) = 1
    /\ Len(names) = 2
    /\ Len(not_found) = 1

\* The record holds no id: id, memberId and member_id are missing or falsy.
IdMissing(m) == \A key \in {"id", "memberId", "member_id"} : Falsy(m.v[key])

\* C4: every result row has a non-empty member id and one of the input names
\* as its search name, and comes from a returned record that holds an id; no
\* more rows exist than records that hold an id.
RowsHaveIdAndInputName ==
    /\ \A i \in 1..Len(rows) :
          /\ rows[i].passkit_id # <<>>
          /\ rows[i].search_name \in Range(names)
          /\ \E k \in 1..Len(raw_members) :
                /\ ~IdMissing(raw_members[k])
                /\ extract_display_name_and_id(raw_members[k]).id
                      = rows[i].passkit_id
                /\ extract_display_name_and_id(raw_members[k]).name
                      = rows[i].member_name
    /\ Len(rows) <= Cardinality({k \in 1..Len(raw_members) :
                                    ~IdMissing(raw_members[k])})

RecordWithoutIdLeftOut ==
    /\ phase = "shown"
    /\ rows # <<>>
    /\ \E k \in 1..Len(raw_members) :
          /\ IdMissing(raw_members[k])
          /\ extract_display_name_and_id(raw_members[k]).name \in Range(names)

IsPrefix(a, b) == Len(a) <= Len(b) /\ SubSeq(b, 1, Len(a)) = a

RequestFails(env) == ~env.creds \/ ~env.net \/ env.status >= 400

\* C8: a search posts at most one request; when the credentials are missing,
\* the request fails in transport or the status is 400 or more, the search
\* fails with an error and renders neither rows nor a not-found list, and for
\* an HTTP error the error carries the status and the body cut to 500
\* characters.
OneRequestAndFailureFailsBatch ==
    /\ http_requests <= 1
    /\ (phase = "failed") =>
          /\ error # NoError
          /\ rows = <<>>
          /\ not_found = <<>>
    /\ (last_op = "search" /\ names # <<>> /\ RequestFails(response)) =>
          /\ phase = "failed"
          /\ ~response.creds => http_requests = 0
          /\ (response.creds /\ response.net) =>
                /\ error.kind = "HTTP"
                /\ error.status = response.status
                /\ Len(error.excerpt) <= ExcerptLen
                /\ IsPrefix(error.excerpt, response.text)
                /\ Len(response.text) <= ExcerptLen
                      => error.excerpt = response.text

HttpErrorWithTruncatedBody ==
    /\ phase = "failed"
    /\ http_requests = 1
    /\ error.kind = "HTTP"
    /\ Len(response.text) > ExcerptLen
    /\ Len(error.excerpt) = ExcerptLen

-----------------------------------------------------------------------------
(* Properties of a session (Spec). *)

-----------------------------------------------------------------------------
(* Properties of the functions (SpecFn). *)

SuccessfulCall ==
    /\ ret.fn = "list_members_by_display_names"
    /\ arg.display_names # <<>>
    /\ arg.env.creds
    /\ arg.env.net
    /\ arg.env.status < 400
    /\ arg.env.json.t # "invalid"

AllKeys == <<"members", "results", "data", "items">>

HoldsList(d, keys) ==
    \E i \in 1..Len(keys) : d.v[keys[i]].t = "list"

\* The body has none of the shapes of the specification: it is no list, and
\* if it is an object, it holds no list under members, results, data or
\* items, at the top or one level inside a response object.
UnknownShape(data) ==
    /\ data.t # "list"
    /\ data.t = "dict" =>
          /\ ~HoldsList(data, AllKeys)
          /\ data.v["response"].t = "dict"
                => ~HoldsList(data.v["response"], AllKeys)

\* C6: a successful response whose JSON body has no known shape makes
\* list_members_by_display_names return an empty list without raising.
UnknownShapeReturnsEmpty ==
    (SuccessfulCall /\ UnknownShape(arg.env.json)) =>
        (~ret.raised /\ ret.value = <<>>)

FirstList(d, keys) ==
    LET i == CHOOSE i \in 1..Len(keys) :
                /\ d.v[keys[i]].t = "list"
                /\ \A k \in 1..(i - 1) : d.v[keys[k]].t # "list"
    IN  d.v[keys[i]].v

\* The list the specification's priority order selects.
SpecifiedList(data) ==
    IF data.t = "list" THEN data.v
    ELSE IF HoldsList(data, AllKeys) THEN FirstList(data, AllKeys)
    ELSE IF data.v["response"].t = "dict" /\ HoldsList(data.v["response"], AllKeys)
         THEN FirstList(data.v["response"], AllKeys)
         ELSE <<>>

\* C7: for a list or object body, the call returns the bare list, else the
\* list under the first of members, results, data, items at the top, else
\* the list under the first of those four keys inside response.
EnvelopeShapesInPriorityOrder ==
    (SuccessfulCall /\ arg.env.json.t \in {"list", "dict"}) =>
        (~ret.raised /\ ret.value = SpecifiedList(arg.env.json))

IsLower(c) == c \in {"a", "b"}

IsNormalized(s) ==
    /\ s # <<>> => (s[1] \notin Whitespace /\ s[Len(s)] \notin Whitespace)
    /\ \A i \in 1..Len(s) : ~IsLower(s[i])
    /\ \A i \in 1..(Len(s) - 1) : ~(s[i] \in Whitespace /\ s[i + 1] \in Whitespace)

NonWhitespace(s) == SelectSeq(s, LAMBDA c : c \notin Whitespace)

RECURSIVE Concat(_)
Concat(ss) == IF ss = <<>> THEN <<>> ELSE Head(ss) \o Concat(Tail(ss))

\* C9: split_names_multiline returns at most limit entries, each non-empty
\* and normalized, and they are the first entries of the normalized
\* non-empty lines of the text, in the text's order.
SplitReturnsPrefixOfNormalizedLines ==
    ret.fn = "split_names_multiline" =>
        LET raw == splitlines(OrEmpty(arg.text))
            all == SelectSeq([i \in 1..Len(raw) |-> normalize_name(raw[i])],
                             NonEmpty)
        IN  /\ Len(ret.lines) <= arg.limit
            /\ \A i \in 1..Len(ret.lines) :
                  ret.lines[i] # <<>> /\ IsNormalized(ret.lines[i])
            /\ IsPrefix(ret.lines, all)
            /\ Len(ret.lines) = Min(arg.limit, Len(all))
            /\ IsPrefix(NonWhitespace(Concat(ret.lines)),
                        Upper(NonWhitespace(OrEmpty(arg.text))))
            /\ arg.limit >= Len(raw) =>
                  NonWhitespace(Concat(ret.lines))
                     = Upper(NonWhitespace(OrEmpty(arg.text)))

SplitTruncatesToLimit ==
    /\ ret.fn = "split_names_multiline"
    /\ arg.limit = 1
    /\ Len(ret.lines) = 1
    /\ Len(split_names_multiline(arg.text, DefaultLimit)) = 2
    /\ ret.lines[1] # splitlines(arg.text)[1]

\* C10: normalizing a normalized name changes nothing, and a text that is
\* None, empty or all whitespace normalizes to the empty string.
NormalizeIdempotent ==
    ret.fn = "normalize_name" =>
        /\ ret.twice = ret.once
        /\ (\A i \in 1..Len(OrEmpty(arg.text)) : OrEmpty(arg.text)[i] \in Whitespace)
              => ret.once = <<>>

NormalizeChangedAName ==
    /\ ret.fn = "normalize_name"
    /\ arg.text # None
    /\ ret.once # <<>>
    /\ Len(ret.once) < Len(arg.text)
    /\ \E i \in 1..Len(arg.text) : IsLower(arg.text[i])

=============================================================================
